---- MODULE Spec2Model ----
(***************************************************************************)
(* Model of combined_app.py: the price source adapter                      *)
(* (StockDataManager.get_stock_price), the broadcast loop                  *)
(* (websocket_endpoint), the /health endpoint, and the reconnect logic of  *)
(* the embedded dashboard script (connectWebSocket).                       *)
(*                                                                         *)
(* Floats are modelled as records: None, NaN, or a number held as an       *)
(* integer count of thousandths (102456 is 102.456).  A frame is the text  *)
(* that f"{x:.2f}" produces.                                               *)
(***************************************************************************)
EXTENDS Integers, Sequences, FiniteSets, TLC

\* ---------------------------------------------------------------- bounds
MaxConns == 2        \* connections accepted by the server over its lifetime
MaxFetches == 3      \* get_stock_price calls modelled, over all connections
MaxSockets == 3      \* WebSocket objects the dashboard creates
MaxVisible == 2      \* visibilitychange events the dashboard handles
MaxAccepted == 52    \* frames the dashboard accepts (more than maxDataPoints)
MaxSessions == 3     \* browser sessions of the Streamlit process
MaxRuns == 2         \* script runs modelled per browser session

Conns == 1..MaxConns
Sessions == 1..MaxSessions

\* ---------------------------------------------------------------- values
None == [k |-> "None", v |-> 0]
NaN == [k |-> "nan", v |-> 0]
Num(n) == [k |-> "float", v |-> n]

IsNum(x) == x.k = "float"
IsPositive(x) == IsNum(x) /\ x.v > 0

\* What ticker.history(period="1d") can yield for one call: the call (or the
\* later indexing/float conversion) raises, the frame is empty, or the last
\* Close is some float, NaN (a missing quote) included.
Closes == {NaN, Num(-1500), Num(0), Num(102456), Num(102500)}
Raises == [k |-> "raise", v |-> 0]
Empty == [k |-> "empty", v |-> 0]
Outcomes == Closes \cup {Raises, Empty}

\* ------------------------------------------------------------ formatting
Abs(n) == IF n < 0 THEN 0 - n ELSE n

\* thousandths -> hundredths, to nearest, ties to even (as the correctly
\* rounded decimal conversion of the format specifier does)
RoundCents(m) ==
    LET q == m \div 10
        r == m % 10
    IN  IF r > 5 \/ (r = 5 /\ q % 2 = 1) THEN q + 1 ELSE q

TwoDigits(n) == IF n < 10 THEN "0" \o ToString(n) ELSE ToString(n)

\* f"{x:.2f}" for a float x
Fmt(x) ==
    IF x.k = "nan" THEN "nan"
    ELSE LET c == RoundCents(Abs(x.v))
         IN  (IF x.v < 0 THEN "-" ELSE "") \o ToString(c \div 100)
                 \o "." \o TwoDigits(c % 100)

\* bool(x) for an Optional[float]: None and 0.0 are falsy, NaN is truthy
Truthy(x) == x # None /\ x # Num(0)

\* ----------------------------------------------------------------- state
VARIABLES
    stock_manager,   \* the global StockDataManager: current_price, last_update
    now,             \* time.time(), counted in get_stock_price calls
    lastClose,       \* history: the Close of the latest non-empty history()
    pc,              \* per connection: position of websocket_endpoint
    ticks,           \* per connection: get_stock_price calls made by its loop
    price,           \* per connection: the local variable price
    frame,           \* per connection: the argument of the current send_text
    closedAt,        \* per connection: loop state when the client left ("" if not)
    ended,           \* per connection: how websocket_endpoint returned
    urlRefused,      \* dashboard: new WebSocket(CONFIG.wsUrl) throws
    loaded,          \* dashboard: DOMContentLoaded has run init()
    socks,           \* dashboard: readyState of every WebSocket created
    socket,          \* dashboard: the variable socket (index in socks, 0 = null)
    opened,          \* dashboard: the WebSockets whose onopen has run
    reconnectTimer,  \* dashboard: the variable reconnectTimer ("null" or "id")
    reconnectArmed,  \* dashboard: the timeout reconnectTimer names has not fired
    otherTimers,     \* dashboard: init/visibilitychange timeouts not yet fired
    visEvents,       \* dashboard: visibilitychange events handled
    lastPrice,       \* dashboard: the variable lastPrice
    priceData,       \* dashboard: the chart's y buffer
    timeData,        \* dashboard: the chart's x buffer (arrival times)
    shown,           \* dashboard: the price and the change on display
    accepted,        \* history: the prices of the frames that were accepted
    lastFrame,       \* history: event.data of the latest message
    session_state,   \* script: per session, 'fastapi_started' in st.session_state
    runs,            \* script: per session, runs of the script so far
    threads          \* script: the run_fastapi threads started, with their state

serverVars == <<stock_manager, now, lastClose, pc, ticks, price, frame,
                closedAt, ended>>
clientVars == <<urlRefused, loaded, socks, socket, opened, reconnectTimer, reconnectArmed,
                otherTimers, visEvents>>
displayVars == <<lastPrice, priceData, timeData, shown, accepted, lastFrame>>
scriptVars == <<session_state, runs, threads>>
vars == <<serverVars, clientVars, displayVars, scriptVars>>

\* --------------------------------------------------- price source adapter
\* StockDataManager.__init__
NewStockDataManager == [current_price |-> None, last_update |-> None]

\* get_stock_price that returns the price without storing it
get_stock_price_NoStore(self, d, t) ==
    IF d \in Closes THEN [ret |-> d, mgr |-> self]
    ELSE [ret |-> None, mgr |-> self]

\* get_stock_price that stores the price without the timestamp
get_stock_price_NoStamp(self, d, t) ==
    IF d \in Closes
    THEN [ret |-> d, mgr |-> [self EXCEPT !.current_price = d]]
    ELSE [ret |-> None, mgr |-> self]

\* get_stock_price that forgets the stored price when the lookup fails
get_stock_price_ClearOnFail(self, d, t) ==
    IF d \in Closes
    THEN [ret |-> d, mgr |-> [current_price |-> d, last_update |-> Num(t)]]
    ELSE [ret |-> None, mgr |-> NewStockDataManager]

\* StockDataManager.get_stock_price on manager self, when the data source
\* yields d at time t: the returned value and the manager afterwards.
get_stock_price(self, d, t) ==
    IF d \in Closes
    THEN [ret |-> d, mgr |-> [current_price |-> d, last_update |-> Num(t)]]
    ELSE [ret |-> None, mgr |-> self]

\* the fallback branch without its last-known-price arm
FrameFor_NoFallback(p, mgr) ==
    IF p # None THEN Fmt(p) ELSE "0.00"

\* the fallback branch with a sentinel of another shape
FrameFor_BareZero(p, mgr) ==
    IF p # None THEN Fmt(p)
    ELSE IF Truthy(mgr.current_price) THEN Fmt(mgr.current_price)
    ELSE "0"

\* the text websocket_endpoint passes to send_text for adapter result p,
\* with the manager as get_stock_price left it
FrameFor(p, mgr) ==
    IF p # None THEN Fmt(p)
    ELSE IF Truthy(mgr.current_price) THEN Fmt(mgr.current_price)
    ELSE "0.00"

\* websocket_endpoint with the except WebSocketDisconnect clause alone
Handler_OnlyDisconnect(e) ==
    IF e = "WebSocketDisconnect" THEN "closed" ELSE "propagated"

\* which except clause of websocket_endpoint takes exception e
Handler(e) ==
    IF e = "WebSocketDisconnect" THEN "closed"
    ELSE IF e \in {"RuntimeError", "ConnectionClosed"} THEN "error"
    ELSE "propagated"

\* health_check
health_check == [status |-> "healthy",
                 last_price |-> stock_manager.current_price,
                 last_update |-> stock_manager.last_update]

ServerInit ==
    /\ stock_manager = NewStockDataManager
    /\ now = 1
    /\ lastClose = None
    /\ pc = [c \in Conns |-> "init"]
    /\ ticks = [c \in Conns |-> 0]
    /\ price = [c \in Conns |-> None]
    /\ frame = [c \in Conns |-> ""]
    /\ closedAt = [c \in Conns |-> ""]
    /\ ended = [c \in Conns |-> ""]

\* the script's "Data storage" declarations, before DOMContentLoaded
ClientInit ==
    /\ urlRefused \in BOOLEAN
    /\ loaded = FALSE
    /\ socks = <<>>
    /\ socket = 0
    /\ opened = {}
    /\ reconnectTimer = "null"
    /\ reconnectArmed = FALSE
    /\ otherTimers = 0
    /\ visEvents = 0

\* ---------------------------------------------------------- broadcast loop
\* await websocket.accept(): the loop starts
Accept(c) ==
    /\ pc[c] = "init"
    /\ pc' = [pc EXCEPT ![c] = "fetch"]
    /\ UNCHANGED <<stock_manager, now, lastClose, ticks, price, frame,
                   closedAt, ended, clientVars, displayVars, scriptVars>>

\* price = await stock_manager.get_stock_price(), then the branch that builds
\* the text and calls send_text.  No suspension point lies between them.
Fetch(c, d) ==
    /\ pc[c] = "fetch"
    /\ now <= MaxFetches
    /\ LET r == get_stock_price(stock_manager, d, now)
       IN  /\ stock_manager' = r.mgr
           /\ price' = [price EXCEPT ![c] = r.ret]
           /\ frame' = [frame EXCEPT ![c] = FrameFor(r.ret, r.mgr)]
    /\ lastClose' = IF d \in Closes THEN d ELSE lastClose
    /\ now' = now + 1
    /\ ticks' = [ticks EXCEPT ![c] = @ + 1]
    /\ pc' = [pc EXCEPT ![c] = "send"]
    /\ UNCHANGED <<closedAt, ended, clientVars, displayVars, scriptVars>>

\* a loop without the sleep between its ticks
SendOk_NoSleep(c) ==
    /\ pc[c] = "send"
    /\ closedAt[c] = ""
    /\ pc' = [pc EXCEPT ![c] = "fetch"]
    /\ price' = [price EXCEPT ![c] = None]
    /\ frame' = [frame EXCEPT ![c] = ""]
    /\ UNCHANGED <<stock_manager, now, lastClose, ticks, closedAt, ended,
                   clientVars, displayVars, scriptVars>>

\* send_text returns: the frame went out; the loop enters asyncio.sleep(3).
\* price and the text are not read again before the next call overwrites them.
SendOk(c) ==
    /\ pc[c] = "send"
    /\ closedAt[c] = ""
    /\ pc' = [pc EXCEPT ![c] = "sleep"]
    /\ price' = [price EXCEPT ![c] = None]
    /\ frame' = [frame EXCEPT ![c] = ""]
    /\ UNCHANGED <<stock_manager, now, lastClose, ticks, closedAt, ended,
                   clientVars, displayVars, scriptVars>>

\* a loop that owns the price and drops it when it ends
SendFail_Discard(c, e) ==
    /\ pc[c] = "send"
    /\ pc' = [pc EXCEPT ![c] = "done"]
    /\ ended' = [ended EXCEPT ![c] = Handler(e)]
    /\ price' = [price EXCEPT ![c] = None]
    /\ frame' = [frame EXCEPT ![c] = ""]
    /\ stock_manager' = NewStockDataManager
    /\ UNCHANGED <<now, lastClose, ticks, closedAt, clientVars, displayVars, scriptVars>>

\* send_text raises e: the try block is left through the matching handler
SendFail(c, e) ==
    /\ pc[c] = "send"
    /\ pc' = [pc EXCEPT ![c] = "done"]
    /\ ended' = [ended EXCEPT ![c] = Handler(e)]
    /\ price' = [price EXCEPT ![c] = None]
    /\ frame' = [frame EXCEPT ![c] = ""]
    /\ UNCHANGED <<stock_manager, now, lastClose, ticks, closedAt,
                   clientVars, displayVars, scriptVars>>

\* asyncio.sleep(3) returns: back to the top of while True
Wake(c) ==
    /\ pc[c] = "sleep"
    /\ pc' = [pc EXCEPT ![c] = "fetch"]
    /\ UNCHANGED <<stock_manager, now, lastClose, ticks, price, frame,
                   closedAt, ended, clientVars, displayVars, scriptVars>>

\* the client closes the connection (nothing in the loop waits for it)
ClientDisconnect(c) ==
    /\ pc[c] \in {"fetch", "send", "sleep"}
    /\ closedAt[c] = ""
    /\ closedAt' = [closedAt EXCEPT ![c] =
                        IF pc[c] = "sleep" THEN "Idle" ELSE "Fetching"]
    /\ UNCHANGED <<stock_manager, now, lastClose, pc, ticks, price, frame,
                   ended, clientVars, displayVars, scriptVars>>

SendErrors == {"WebSocketDisconnect", "RuntimeError", "ConnectionClosed"}

ServerNext ==
    \E c \in Conns :
        \/ Accept(c)
        \/ \E d \in Outcomes : Fetch(c, d)
        \/ SendOk(c)
        \/ \E e \in SendErrors : SendFail(c, e)
        \/ Wake(c)
        \/ ClientDisconnect(c)

\* ----------------------------------------------------- dashboard display
\* A frame on the wire is the sequence of its characters.
maxDataPoints == 50

Digits == <<"0", "1", "2", "3", "4", "5", "6", "7", "8", "9">>
IsDigit(ch) == \E k \in 1..10 : Digits[k] = ch
DigitVal(ch) == (CHOOSE k \in 1..10 : Digits[k] = ch) - 1

\* the decimal digits of n, most significant first
RECURSIVE NatChars(_)
NatChars(n) ==
    IF n < 10 THEN <<Digits[n + 1]>>
    ELSE Append(NatChars(n \div 10), Digits[(n % 10) + 1])

\* the frame f"{x:.2f}" of a price of c hundredths, c >= 0
FrameOfCents(c) ==
    NatChars(c \div 100) \o <<".">> \o <<Digits[((c % 100) \div 10) + 1]>>
        \o <<Digits[(c % 10) + 1]>>

\* frames a server tick can send that are no price > 0
Sentinel == <<"0", ".", "0", "0">>
NanFrame == <<"n", "a", "n">>
NegativeFrame == <<"-", "1", ".", "5", "0">>
NoFrame == <<>>

\* the price of the n-th accepted frame, a different one for each n, so that
\* arrival order shows in the buffers
PriceNo(n) == Num(100000 + 10 * n)

\* the messages that can arrive next
FramesOffered ==
    {Sentinel, NanFrame, NegativeFrame}
        \cup {FrameOfCents(PriceNo(Len(accepted) + 1).v \div 10)}

\* how many digits str holds from position i on
RECURSIVE DigitRun(_, _)
DigitRun(str, i) ==
    IF i <= Len(str) /\ IsDigit(str[i]) THEN 1 + DigitRun(str, i + 1) ELSE 0

\* the number written by the n digits of str from position i on
RECURSIVE DigitsValue(_, _, _)
DigitsValue(str, i, n) ==
    IF n = 0 THEN 0
    ELSE 10 * DigitsValue(str, i, n - 1) + DigitVal(str[i + n - 1])

\* parseFloat(str), in thousandths: an optional sign, digits, an optional
\* point and fraction digits; NaN when str starts with no number
parseFloat(str) ==
    LET signed == Len(str) > 0 /\ str[1] \in {"-", "+"}
        start == IF signed THEN 2 ELSE 1
        ni == DigitRun(str, start)
        dot == start + ni <= Len(str) /\ str[start + ni] = "."
        nf == IF dot THEN DigitRun(str, start + ni + 1) ELSE 0
        kept == IF nf > 3 THEN 3 ELSE nf
        scale == IF kept = 0 THEN 1000
                 ELSE IF kept = 1 THEN 100
                 ELSE IF kept = 2 THEN 10 ELSE 1
        mag == 1000 * DigitsValue(str, start, ni)
                   + scale * DigitsValue(str, start + ni + 1, kept)
    IN  IF ni + nf = 0 THEN NaN
        ELSE Num(IF signed /\ str[1] = "-" THEN 0 - mag ELSE mag)

isNaN(x) == x = NaN

\* socket.onmessage's test with >= for >
onmessageAccepts_NonNegative(livePrice) ==
    ~isNaN(livePrice) /\ livePrice.v >= 0

\* socket.onmessage: if (!isNaN(livePrice) && livePrice > 0)
onmessageAccepts(livePrice) == ~isNaN(livePrice) /\ livePrice.v > 0

\* updateDisplay's chart update that shifts only priceData
updateChart_ShiftPricesOnly(prices, times, livePrice, t) ==
    LET p == Append(prices, livePrice)
        x == Append(times, t)
    IN  IF Len(p) > maxDataPoints
        THEN [priceData |-> Tail(p), timeData |-> x]
        ELSE [priceData |-> p, timeData |-> x]

\* updateDisplay, "Update chart": push on both buffers, then shift both when
\* priceData is longer than CONFIG.maxDataPoints
updateChart(prices, times, livePrice, t) ==
    LET p == Append(prices, livePrice)
        x == Append(times, t)
    IN  IF Len(p) > maxDataPoints
        THEN [priceData |-> Tail(p), timeData |-> Tail(x)]
        ELSE [priceData |-> p, timeData |-> x]

\* the page as served and the "Data storage" declarations
DisplayInit ==
    /\ lastPrice = None
    /\ priceData = <<>>
    /\ timeData = <<>>
    /\ shown = [price |-> Num(0), change |-> None]
    /\ accepted = <<>>
    /\ lastFrame = NoFrame

\* updateDisplay(livePrice) at time t
updateDisplay(livePrice, t) ==
    /\ shown' = [price |-> livePrice,
                 change |-> IF lastPrice # None
                            THEN Num(livePrice.v - lastPrice.v)
                            ELSE shown.change]
    /\ LET r == updateChart(priceData, timeData, livePrice, t)
       IN  /\ priceData' = r.priceData
           /\ timeData' = r.timeData
    /\ lastPrice' = livePrice

\* socket i fires onmessage with event.data = f
OnMessage(i, f) ==
    /\ i \in 1..Len(socks)
    /\ socks[i] = "OPEN"
    /\ lastFrame' = f
    /\ IF onmessageAccepts(parseFloat(f))
       THEN /\ Len(accepted) < MaxAccepted
            /\ updateDisplay(parseFloat(f), Len(accepted) + 1)
            /\ accepted' = Append(accepted, PriceNo(Len(accepted) + 1))
       ELSE UNCHANGED <<lastPrice, priceData, timeData, shown, accepted>>
    /\ UNCHANGED <<clientVars, serverVars, scriptVars>>

\* ------------------------------------------------------ dashboard client
\* if (!reconnectTimer) reconnectTimer = setTimeout(connectWebSocket, delay):
\* the timer variable and whether its timeout is armed, afterwards
ScheduleReconnect(timer, armed) ==
    IF timer = "null" THEN [timer |-> "id", armed |-> TRUE]
    ELSE [timer |-> timer, armed |-> armed]

\* socket.onopen: if (reconnectTimer) { clearTimeout(..); reconnectTimer = null }
OnOpenTimer(timer, armed) ==
    IF timer # "null" THEN [timer |-> "null", armed |-> FALSE]
    ELSE [timer |-> timer, armed |-> armed]

\* document DOMContentLoaded -> init(): setTimeout(connectWebSocket, 2000)
DomContentLoaded ==
    /\ ~loaded
    /\ loaded' = TRUE
    /\ otherTimers' = otherTimers + 1
    /\ UNCHANGED <<urlRefused, socks, socket, opened, reconnectTimer,
                   reconnectArmed, visEvents, serverVars, displayVars, scriptVars>>

\* connectWebSocket(), entered from a timeout, with armed saying whether the
\* reconnect timeout is still to fire; new WebSocket(CONFIG.wsUrl) returns a
\* CONNECTING socket, or throws into the catch block when the URL is refused
connectWebSocket(armed) ==
    /\ Len(socks) < MaxSockets
    /\ IF urlRefused
       THEN LET r == ScheduleReconnect(reconnectTimer, armed)
            IN  /\ reconnectTimer' = r.timer
                /\ reconnectArmed' = r.armed
                /\ UNCHANGED <<socks, socket>>
       ELSE /\ socks' = Append(socks, "CONNECTING")
            /\ socket' = Len(socks) + 1
            /\ reconnectArmed' = armed
            /\ UNCHANGED reconnectTimer

\* the timeout set by init() or by the visibilitychange handler fires
OtherTimerFires ==
    /\ otherTimers > 0
    /\ otherTimers' = otherTimers - 1
    /\ connectWebSocket(reconnectArmed)
    /\ UNCHANGED <<urlRefused, loaded, opened, visEvents, serverVars, displayVars, scriptVars>>

\* the timeout stored in reconnectTimer fires (the variable keeps its id)
ReconnectTimerFires ==
    /\ reconnectArmed
    /\ connectWebSocket(FALSE)
    /\ UNCHANGED <<urlRefused, loaded, opened, otherTimers, visEvents,
                   serverVars, displayVars, scriptVars>>

\* socket i fires onopen
SocketOpen(i) ==
    /\ i \in 1..Len(socks)
    /\ socks[i] = "CONNECTING"
    /\ socks' = [socks EXCEPT ![i] = "OPEN"]
    /\ opened' = opened \cup {i}
    /\ LET r == OnOpenTimer(reconnectTimer, reconnectArmed)
       IN  /\ reconnectTimer' = r.timer
           /\ reconnectArmed' = r.armed
    /\ UNCHANGED <<urlRefused, loaded, socket, otherTimers, visEvents,
                   serverVars, displayVars, scriptVars>>

\* socket i fires onclose (after a failed handshake or a lost connection)
SocketClose(i) ==
    /\ i \in 1..Len(socks)
    /\ socks[i] \in {"CONNECTING", "OPEN"}
    /\ socks' = [socks EXCEPT ![i] = "CLOSED"]
    /\ LET r == ScheduleReconnect(reconnectTimer, reconnectArmed)
       IN  /\ reconnectTimer' = r.timer
           /\ reconnectArmed' = r.armed
    /\ UNCHANGED <<urlRefused, loaded, socket, opened, otherTimers, visEvents,
                   serverVars, displayVars, scriptVars>>

\* document visibilitychange; visible says whether the page became visible
VisibilityChange(visible) ==
    /\ loaded
    /\ visEvents < MaxVisible
    /\ visEvents' = visEvents + 1
    /\ otherTimers' =
           IF visible /\ (socket = 0 \/ socks[socket] = "CLOSED")
           THEN otherTimers + 1 ELSE otherTimers
    /\ UNCHANGED <<urlRefused, loaded, socks, socket, opened, reconnectTimer,
                   reconnectArmed, serverVars, displayVars, scriptVars>>

ClientNext ==
    \/ \E i \in 1..MaxSockets : \E f \in FramesOffered : OnMessage(i, f)
    \/ DomContentLoaded
    \/ OtherTimerFires
    \/ ReconnectTimerFires
    \/ \E i \in 1..MaxSockets : SocketOpen(i)
    \/ \E i \in 1..MaxSockets : SocketClose(i)
    \/ \E visible \in BOOLEAN : VisibilityChange(visible)

\* ------------------------------------------------------ Streamlit script
\* st.session_state of each session is empty when the session starts
ScriptInit ==
    /\ session_state = [s \in Sessions |-> FALSE]
    /\ runs = [s \in Sessions |-> 0]
    /\ threads = <<>>

\* one run of the script for session s, down to the "only once" block:
\* if 'fastapi_started' not in st.session_state, set it and start a thread
\* with target run_fastapi
ScriptRun(s) ==
    /\ runs[s] < MaxRuns
    /\ runs' = [runs EXCEPT ![s] = @ + 1]
    /\ IF session_state[s]
       THEN UNCHANGED <<session_state, threads>>
       ELSE /\ session_state' = [session_state EXCEPT ![s] = TRUE]
            /\ threads' = Append(threads, "started")
    /\ UNCHANGED <<serverVars, clientVars, displayVars>>

\* run_fastapi in thread i: uvicorn.run serves on the port, or gives up when
\* another thread of the process already listens on it
run_fastapi(i) ==
    /\ i \in 1..Len(threads)
    /\ threads[i] = "started"
    /\ threads' = [threads EXCEPT ![i] =
                       IF \E j \in 1..Len(threads) : threads[j] = "serving"
                       THEN "failed" ELSE "serving"]
    /\ UNCHANGED <<session_state, runs, serverVars, clientVars, displayVars>>

ScriptNext ==
    \/ \E s \in Sessions : ScriptRun(s)
    \/ \E i \in 1..MaxSessions : run_fastapi(i)

\* the server, beside a dashboard page that stays as loaded
Init == ServerInit /\ ClientInit /\ DisplayInit /\ ScriptInit /\ ~urlRefused
Next == ServerNext
Spec == Init /\ [][Next]_vars

\* the dashboard script on its own, for either kind of URL
ClientSpecInit == ServerInit /\ ClientInit /\ DisplayInit /\ ScriptInit
ClientSpec == ClientSpecInit /\ [][ClientNext]_vars

\* the Streamlit script and the threads it starts
ScriptSpec == Init /\ [][ScriptNext]_vars

\* ================================================================ claims
\* one tick of connection c: the adapter call and the send_text it leads to
TickOf(c) == pc[c] = "fetch" /\ pc'[c] = "send"
\* ... in which the adapter returned no price
FailedTickOf(c) == TickOf(c) /\ price'[c] = None

\* C1: in every tick whose fetch succeeds with a price P > 0, the frame handed
\* to send_text is P formatted to two decimals, and after the tick
\* stock_manager.current_price is P.
C1_SuccessFrame ==
    [][\A c \in Conns :
        (TickOf(c) /\ IsPositive(price'[c])) =>
            /\ frame'[c] = Fmt(price'[c])
            /\ price'[c] = lastClose'
            /\ stock_manager'.current_price = price'[c]]_vars

C1_Witness ==
    \E c \in Conns :
        /\ pc[c] = "send" /\ price[c] = Num(102456)
        /\ frame[c] = "102.46"
        /\ stock_manager.current_price = Num(102456)

\* C2: in every tick whose fetch fails while current_price holds a value L
\* stored by an earlier successful fetch, the frame is L formatted to two
\* decimals: the frame of the most recent successful tick.
C2_StaleFrame ==
    [][\A c \in Conns :
        (FailedTickOf(c) /\ stock_manager.current_price # None) =>
            /\ stock_manager.current_price = lastClose
            /\ frame'[c] = Fmt(lastClose)]_vars

C2_Witness ==
    \E c \in Conns :
        /\ pc[c] = "send" /\ price[c] = None /\ ticks[c] = 2
        /\ lastClose = Num(102500)
        /\ frame[c] = "102.50"

\* C3: in every tick whose fetch fails while current_price is None, the
\* frame is the sentinel "0.00"; so is the first frame of a connection whose
\* first fetch fails when no price was stored before.
C3_SentinelFrame ==
    [][\A c \in Conns :
        (FailedTickOf(c) /\ stock_manager.current_price = None) =>
            frame'[c] = "0.00"]_vars

C3_Witness ==
    \E c \in Conns :
        /\ pc[c] = "send" /\ price[c] = None /\ ticks[c] = 1
        /\ stock_manager.current_price = None
        /\ frame[c] = "0.00"

\* C4 as claimed: the last known price belongs to one connection's loop, so
\* the first tick of a connection, when its fetch fails, sends "0.00" even
\* though another connection fetched a price P > 0 before.
C4_PerConnectionPrice ==
    [][\A c \in Conns :
        (FailedTickOf(c) /\ ticks[c] = 0 /\ IsPositive(lastClose)) =>
            frame'[c] = "0.00"]_vars

\* C4 amended: the last known price is one process-wide value
\* (stock_manager is a module global): no loop's end discards it, and the
\* first tick of a connection, when its fetch fails, sends the most recent
\* price fetched by any connection, "0.00" only if there is none.
C4_SharedPrice ==
    [][\A c \in Conns :
        /\ (FailedTickOf(c) /\ ticks[c] = 0) =>
               frame'[c] = IF lastClose = None THEN "0.00" ELSE Fmt(lastClose)
        /\ (pc[c] # "done" /\ pc'[c] = "done") =>
               stock_manager'.current_price = lastClose']_vars

C4_Witness ==
    \E c, o \in Conns :
        /\ c # o
        /\ pc[o] = "done" /\ ticks[o] = 1
        /\ pc[c] = "send" /\ ticks[c] = 1 /\ price[c] = None
        /\ frame[c] = "102.46"

\* C5 as claimed: once the client has disconnected while the loop was in its
\* Idle (sleeping) state, that loop makes no further get_stock_price call.
C5_NoFetchAfterIdleDisconnect ==
    [][\A c \in Conns : closedAt[c] = "Idle" => ticks'[c] = ticks[c]]_vars

\* C6: an exception raised by send_text ends the loop of that connection:
\* websocket_endpoint returns through one of its handlers (nothing
\* propagates), and from then on that loop makes no fetch, holds no text to
\* send (no retry, no error payload) and never leaves its final state.
C6_SendFailureEndsLoop ==
    [][\A c \in Conns :
        /\ (pc[c] = "send" /\ pc'[c] \notin {"send", "sleep"}) =>
               /\ pc'[c] = "done"
               /\ ended'[c] \in {"closed", "error"}
               /\ frame'[c] = ""
               /\ ticks'[c] = ticks[c]
        /\ pc[c] = "done" =>
               /\ pc'[c] = "done"
               /\ ended'[c] = ended[c]
               /\ frame'[c] = ""
               /\ ticks'[c] = ticks[c]]_vars

C6_Witness ==
    \E c \in Conns :
        /\ pc[c] = "done" /\ ended[c] = "error"
        /\ closedAt[c] = "" /\ ticks[c] = 1

\* the frames that are a price with two fraction digits
PriceFrames == {Fmt(x) : x \in {y \in Closes : IsNum(y)}}

\* C7 as claimed: a failed fetch returns None and does not end the loop; the
\* tick still hands send_text one frame that is a two-decimal price string or
\* "0.00".
C7_FailedFetchFrame ==
    [][\A c \in Conns :
        FailedTickOf(c) =>
            /\ pc'[c] = "send"
            /\ frame'[c] \in PriceFrames \cup {"0.00"}]_vars

\* C8 as claimed: whenever every WebSocket the dashboard made has closed, a
\* connectWebSocket call is scheduled (a timeout is armed).
C8_ReconnectScheduled ==
    (Len(socks) > 0 /\ \A i \in 1..Len(socks) : socks[i] = "CLOSED")
        => (reconnectArmed \/ otherTimers > 0)

\* C9: /health reports last_price and last_update both empty or both set;
\* both are empty exactly when no fetch has succeeded, and otherwise
\* last_price is the price of the most recent successful fetch.
C9_HealthConsistent ==
    LET h == health_check
    IN  /\ (h.last_price = None) <=> (h.last_update = None)
        /\ (h.last_price = None) <=> (lastClose = None)
        /\ h.last_price = lastClose

C9_Witness ==
    /\ health_check.last_price = Num(102500)
    /\ health_check.last_update = Num(2)
    /\ \E c \in Conns : pc[c] = "send" /\ price[c] = None

\* C10 as claimed: whatever the data source yields, a price the adapter
\* returns, and so current_price whenever it is set, is > 0.
C10_PositivePrice ==
    /\ stock_manager.current_price # None
           => IsPositive(stock_manager.current_price)
    /\ \A c \in Conns : price[c] # None => IsPositive(price[c])

\* C11: within one connection's loop the steps repeat in the order fetch,
\* send, sleep: an adapter call is made only from the top of the loop and is
\* followed by the one send_text of its tick; the next adapter call comes
\* only after that send has returned and the sleep after it has ended; a
\* text is held for sending exactly while a send_text is in progress.
C11_TickOrder ==
    [][\A c \in Conns :
        /\ pc'[c] # pc[c] =>
               \/ pc[c] = "init" /\ pc'[c] = "fetch" /\ ticks'[c] = ticks[c]
               \/ pc[c] = "fetch" /\ pc'[c] = "send"
                      /\ ticks'[c] = ticks[c] + 1
               \/ pc[c] = "send" /\ pc'[c] = "sleep" /\ ticks'[c] = ticks[c]
               \/ pc[c] = "sleep" /\ pc'[c] = "fetch" /\ ticks'[c] = ticks[c]
               \/ pc[c] = "send" /\ pc'[c] = "done" /\ ticks'[c] = ticks[c]
        /\ pc'[c] = pc[c] => (ticks'[c] = ticks[c] /\ frame'[c] = frame[c])
        /\ (pc'[c] = "send") <=> (frame'[c] # "")]_vars

C11_Witness ==
    \E c \in Conns :
        /\ pc[c] = "send" /\ ticks[c] = 2 /\ frame[c] # ""
        /\ closedAt[c] = ""

\* C12: a failed fetch leaves current_price and last_update as they were
\* before the call (the fallback branch only reads them), and once
\* current_price is set no step resets it to None.
C12_FailedFetchKeepsState ==
    [][/\ \A c \in Conns : FailedTickOf(c) => stock_manager' = stock_manager
       /\ stock_manager.current_price # None
              => stock_manager'.current_price # None]_vars

C12_Witness ==
    \E c \in Conns :
        /\ pc[c] = "send" /\ price[c] = None
        /\ stock_manager = [current_price |-> Num(102456),
                            last_update |-> Num(1)]
        /\ now = 3

\* C13 as claimed: over any number of script runs and browser sessions of
\* one process, at most one run_fastapi thread is ever started.
C13_OneServerThread == Len(threads) <= 1

\* C14 as claimed: the dashboard never has more than one WebSocket open or
\* connecting, and never more than one connectWebSocket call scheduled.
C14_OneSocketAtATime ==
    /\ Cardinality({i \in 1..Len(socks) :
                        socks[i] \in {"CONNECTING", "OPEN"}}) <= 1
    /\ otherTimers + (IF reconnectArmed THEN 1 ELSE 0) <= 1

\* what the page shows and plots
Rendered == <<lastPrice, priceData, timeData, shown>>

\* C15: the dashboard renders no sentinel or invalid frame: the display, the
\* chart buffers and lastPrice change only on a frame that parses to a
\* number > 0 (they stay as they are on "0.00", "nan" and "-1.50"), what is
\* then shown is that frame's price, and lastPrice is always null or > 0.
C15_OnlyPositiveRendered ==
    /\ [](lastPrice = None \/ IsPositive(lastPrice))
    /\ [][/\ Rendered' # Rendered =>
                 /\ lastFrame' \notin {Sentinel, NanFrame, NegativeFrame}
                 /\ lastPrice' = accepted'[Len(accepted')]
                 /\ shown'.price = lastPrice'
                 /\ Len(accepted') = Len(accepted) + 1
          /\ Rendered' = Rendered => accepted' = accepted]_vars

C15_Witness ==
    /\ lastFrame = Sentinel
    /\ lastPrice = Num(100020)
    /\ shown = [price |-> Num(100020), change |-> Num(10)]
    /\ Len(priceData) = 2

\* the last n elements of seq (all of it when it is shorter)
LastN(seq, n) ==
    IF Len(seq) <= n THEN seq ELSE SubSeq(seq, Len(seq) - n + 1, Len(seq))

\* C16: after any sequence of frames priceData and timeData have the same
\* length, at most maxDataPoints (50), and hold the most recent accepted
\* prices and their arrival times in arrival order (the oldest dropped).
C16_BuffersBoundedAligned ==
    /\ Len(priceData) = Len(timeData)
    /\ Len(priceData) <= maxDataPoints
    /\ priceData = LastN(accepted, maxDataPoints)
    /\ \A k \in 1..Len(timeData) :
           timeData[k] = Len(accepted) - Len(timeData) + k

C16_Witness ==
    /\ Len(accepted) = maxDataPoints + 2
    /\ Len(priceData) = maxDataPoints
    /\ priceData[1] = PriceNo(3)
    /\ timeData[maxDataPoints] = maxDataPoints + 2

====
